---- MODULE Spec2Model ----
(***************************************************************************)
(* Model of the particle-filter core of ELPF (src/ELPF/particle_filter.py) *)
(* and of the filtering loop of src/examples/elpf_test.py.                 *)
(*                                                                         *)
(* Particle objects and numpy arrays live in two heaps, so that aliasing   *)
(* and in-place writes (the normalisation loop `p.weight /= total_weight`) *)
(* are visible.  A ParticleState is the list of its Particle object ids.   *)
(* Floating-point numbers are modelled by exact fractions <<n, d>> with    *)
(* d >= 0; d = 0 gives the IEEE specials inf = <<1, 0>> and nan = <<0, 0>> *)
(* that numpy produces for 1/0 and 0/0.                                    *)
(***************************************************************************)
EXTENDS Integers, Sequences, FiniteSets, TLC

VARIABLES
    particles,      \* heap of Particle objects: id -> [state_vector, weight]
    arrays,         \* heap of numpy state-vector arrays: id -> value
    track,          \* elpf_test.py `track`: list of ParticleState
    prior,          \* elpf_test.py `prior`: the ParticleState returned by predict
    measurements,   \* elpf_test.py `measurements`: the current measurement set
    filter,         \* class of the constructed filter `pf`
    pc,             \* position in the filtering loop
    call            \* locals and return value of the latest filter call

vars == <<particles, arrays, track, prior, measurements, filter, pc, call>>

---------------------------------------------------------------------------
(* Bounds of the model *)

MaxParticles == 3      \* Spec: num_particles ranges over 1..MaxParticles
GridParticles == 4     \* SpecResample: num_particles ranges over 1..GridParticles
WeightGrid == 6        \* SpecResample: weights are multiples of 1/WeightGrid
OffsetGrid == 2        \* u_i ranges over k/(OffsetGrid*N), 0 <= k < OffsetGrid
MaxClutter == 1        \* clutter points per measurement set
MaxSteps == 2          \* filtering steps appended to the track

(* Program constants *)

EssDivisor == 2        \* resample when ess < num_particles / 2
time_interval == 1     \* elpf_test.py: time_interval = 1

MeasValues == {0, 2}   \* values a measurement (detection or clutter) may take
NoiseValues == {0, 1}  \* process noise added to a particle by the transition

---------------------------------------------------------------------------
(* Floating-point values as fractions *)

Abs(x) == IF x < 0 THEN -x ELSE x

Sign(x) == IF x < 0 THEN -1 ELSE IF x > 0 THEN 1 ELSE 0

Min(a, b) == IF a <= b THEN a ELSE b

RECURSIVE GCD(_, _)
GCD(a, b) == IF b = 0 THEN a ELSE GCD(b, a % b)

\* canonical form of n/d
Frac(n, d) ==
    IF d = 0 THEN <<Sign(n), 0>>
    ELSE LET g == GCD(Abs(n), Abs(d))
         IN  <<(Sign(d) * n) \div g, Abs(d) \div g>>

Zero == <<0, 1>>
One == <<1, 1>>
NaN == <<0, 0>>

IsNaN(a) == a = NaN

FAdd(a, b) ==
    IF IsNaN(a) \/ IsNaN(b) THEN NaN
    ELSE IF a[2] = 0 /\ b[2] = 0 THEN (IF a[1] = b[1] THEN a ELSE NaN)
    ELSE Frac(a[1] * b[2] + b[1] * a[2], a[2] * b[2])

FMul(a, b) == Frac(a[1] * b[1], a[2] * b[2])

FDiv(a, b) == Frac(a[1] * b[2], a[2] * b[1])

\* a < b; every comparison with nan is False
FLess(a, b) ==
    IF IsNaN(a) \/ IsNaN(b) THEN FALSE
    ELSE a[1] * b[2] < b[1] * a[2]

RECURSIVE FSumTo(_, _)
FSumTo(s, k) == IF k = 0 THEN Zero ELSE FAdd(FSumTo(s, k - 1), s[k])

\* np.sum over a vector
FSum(s) == FSumTo(s, Len(s))

---------------------------------------------------------------------------
(* ParticleState views (ELPF.state) and the external collaborators *)

Range(s) == {s[i] : i \in DOMAIN s}

\* ParticleState.num_particles
NumParticles(ps) == Len(ps)

\* ParticleState.weights: the weight vector, in stored order
Weights(P, ps) == [i \in 1..Len(ps) |-> P[ps[i]].weight]

\* ParticleState.state_vector: the stacked state matrix, in stored order
StateVector(P, A, ps) == [i \in 1..Len(ps) |-> A[P[ps[i]].state_vector]]

\* what a ParticleState holds, by value
View(P, A, ps) ==
    [i \in 1..Len(ps) |->
        [state_vector |-> A[P[ps[i]].state_vector], weight |-> P[ps[i]].weight]]

\* transition_model.function: one new column per particle, drift plus noise
TransitionFunction(P, A, ps, dt, noise) ==
    [i \in 1..Len(ps) |-> StateVector(P, A, ps)[i] + dt + noise[i]]

\* measurement_model.function(particle_state, noise=False)
MeasurementFunction(P, A, ps) == StateVector(P, A, ps)

\* likelihood_function(z, predicted_measurements, covar): a density that
\* peaks at z and is zero two or more units away
LikelihoodFunction(z, predicted) ==
    [i \in 1..Len(predicted) |->
        LET dist == Abs(z - predicted[i])
        IN  IF dist >= 2 THEN Zero ELSE Frac(2 - dist, 1)]

\* allocation: n new objects appended to a heap
NewIds(H, n) == [i \in 1..n |-> Len(H) + i]

---------------------------------------------------------------------------
(* ParticleFilter.predict *)

\* variant: every predicted particle is given the uniform weight
PredictParticlesReweighted(P, ps, columns) ==
    [i \in 1..Min(Len(columns), Len(ps)) |->
        [state_vector |-> columns[i], weight |-> Frac(1, Len(ps))]]

\* [Particle(state, particle.weight) for state, particle in zip(new_states.T, particles)]
PredictParticles(P, ps, columns) ==
    [i \in 1..Min(Len(columns), Len(ps)) |->
        [state_vector |-> columns[i], weight |-> P[ps[i]].weight]]

PredictReturn(P, A, new_states, new_particles) ==
    [particles |-> P \o new_particles,
     arrays |-> A \o new_states,
     new_states |-> new_states,
     ret |-> NewIds(P, Len(new_particles))]

PredictGiven(P, A, ps, new_states) ==
    PredictReturn(P, A, new_states,
                  PredictParticles(P, ps, NewIds(A, Len(new_states))))

predict(P, A, ps, dt, noise) ==
    PredictGiven(P, A, ps, TransitionFunction(P, A, ps, dt, noise))

---------------------------------------------------------------------------
(* ParticleFilter.resample *)

\* ess = 1 / np.sum(particle_state.weights**2)
EffectiveSampleSize(weights) ==
    FDiv(One, FSum([i \in 1..Len(weights) |-> FMul(weights[i], weights[i])]))

\* variant: ess <= num_particles / 2
NeedsResampleInclusive(ess, num_particles) ==
    ~IsNaN(ess) /\ ~FLess(Frac(num_particles, EssDivisor), ess)

\* if ess < (num_particles / 2)
NeedsResample(ess, num_particles) == FLess(ess, Frac(num_particles, EssDivisor))

\* cdf = np.cumsum(weights); cdf[-1] = 1.0
Cdf(weights) ==
    [i \in 1..Len(weights) |-> IF i = Len(weights) THEN One ELSE FSumTo(weights, i)]

\* variant: np.arange(num_particles - 1)
SamplePointsShort(u_i, num_particles) ==
    [j \in 1..(num_particles - 1) |->
        FAdd(u_i, FMul(Frac(1, num_particles), Frac(j - 1, 1)))]

\* u_j = u_i + (1 / num_particles) * np.arange(num_particles)
SamplePoints(u_i, num_particles) ==
    [j \in 1..num_particles |-> FAdd(u_i, FMul(Frac(1, num_particles), Frac(j - 1, 1)))]

\* variant: side='right', the first position whose cdf is > u
SearchSortedRight(cdf, u) ==
    LET hits == {i \in 1..Len(cdf) : FLess(u, cdf[i])}
    IN  IF hits = {} THEN Len(cdf)
        ELSE CHOOSE i \in hits : \A k \in hits : i <= k

\* np.searchsorted(cdf, u), side='left': the first position whose cdf is >= u,
\* or one past the end (positions are 1-based here)
SearchSorted(cdf, u) ==
    LET hits == {i \in 1..Len(cdf) : ~FLess(cdf[i], u)}
    IN  IF hits = {} THEN Len(cdf) + 1
        ELSE CHOOSE i \in hits : \A k \in hits : i <= k

\* [Particle(state_vector, 1.0 / num_particles) for state_vector in new_state_vector.T]
ResampledParticles(columns, num_particles) ==
    [j \in 1..Len(columns) |->
        [state_vector |-> columns[j], weight |-> Frac(1, num_particles)]]

\* index = np.searchsorted(cdf, u_j)
SystematicIndex(cdf, u_j) == [j \in 1..Len(u_j) |-> SearchSorted(cdf, u_j[j])]

\* new_state_vector = particle_state.state_vector[:, index]  (a copy of the columns)
SelectColumns(state_vector, index) ==
    [j \in 1..Len(index) |-> state_vector[index[j]]]

\* lines 73-78: the resampled ParticleState, made of new arrays and new Particles
ResampledState(P, A, new_state_vector, num_particles, ess, u0, index) ==
    [particles |-> P \o ResampledParticles(NewIds(A, Len(new_state_vector)), num_particles),
     arrays |-> A \o new_state_vector,
     ret |-> NewIds(P, Len(new_state_vector)),
     ess |-> ess, resampled |-> TRUE, u_i |-> u0, index |-> index]

\* line 79: return particle_state
NoResample(P, A, ps, ess) ==
    [particles |-> P, arrays |-> A, ret |-> ps, ess |-> ess,
     resampled |-> FALSE, u_i |-> NaN, index |-> <<>>]

ResampleIndexed(P, A, ps, ess, u0, index) ==
    ResampledState(P, A, SelectColumns(StateVector(P, A, ps), index),
                   NumParticles(ps), ess, u0, index)

ResampleGiven(P, A, ps, u0, ess) ==
    IF NeedsResample(ess, NumParticles(ps))
    THEN ResampleIndexed(P, A, ps, ess, u0,
             SystematicIndex(Cdf(Weights(P, ps)), SamplePoints(u0, NumParticles(ps))))
    ELSE NoResample(P, A, ps, ess)

resample(P, A, ps, u0) ==
    ResampleGiven(P, A, ps, u0, EffectiveSampleSize(Weights(P, ps)))

---------------------------------------------------------------------------
(* BootstrapParticleFilter.update and ExpectedLikelihoodParticleFilter.update *)

\* new_weights = weights * likelihoods
NewWeights(weights, likelihoods) ==
    [i \in 1..Min(Len(weights), Len(likelihoods)) |-> FMul(weights[i], likelihoods[i])]

\* variant: the new weights are written into the input's Particle objects
NewParticlesInPlace(P, ps, new_weights) ==
    [particles |->
        [id \in 1..Len(P) |->
            IF id \in Range(ps)
            THEN [P[id] EXCEPT
                    !.weight = new_weights[CHOOSE i \in 1..Len(ps) : ps[i] = id]]
            ELSE P[id]],
     ids |-> ps]

\* [Particle(particle.state_vector, new_weight) for particle, new_weight in zip(...)]
\* the new Particle objects share the state-vector arrays of the input's
NewParticles(P, ps, new_weights) ==
    LET made == [i \in 1..Min(Len(ps), Len(new_weights)) |->
                    [state_vector |-> P[ps[i]].state_vector, weight |-> new_weights[i]]]
    IN  [particles |-> P \o made, ids |-> NewIds(P, Len(made))]

\* variant: total_weight >= 0
ShouldNormaliseInclusive(total_weight) ==
    total_weight = Zero \/ FLess(Zero, total_weight)

\* if total_weight > 0
ShouldNormalise(total_weight) == FLess(Zero, total_weight)

\* variant: the loop stops one particle short
NormaliseAllButLast(P, ids, total_weight) ==
    [id \in 1..Len(P) |->
        IF id \in Range(ids) /\ id # ids[Len(ids)]
        THEN [P[id] EXCEPT !.weight = FDiv(@, total_weight)]
        ELSE P[id]]

\* for p in new_particles: p.weight /= total_weight   (writes the heap in place)
Normalise(P, ids, total_weight) ==
    [id \in 1..Len(P) |->
        IF id \in Range(ids)
        THEN [P[id] EXCEPT !.weight = FDiv(@, total_weight)]
        ELSE P[id]]

\* what update returns, with its locals
UpdateReturn(r, total_weight, updated) ==
    [particles |-> r.particles, arrays |-> r.arrays, ret |-> r.ret,
     total_weight |-> total_weight, updated |-> updated,
     ess |-> r.ess, resampled |-> r.resampled, u_i |-> r.u_i, index |-> r.index]

\* return self.resample(ParticleState(new_particles))
ResampleUpdated(heap, A, ids, total_weight, u0) ==
    UpdateReturn(resample(heap, A, ids, u0), total_weight, View(heap, A, ids))

\* total_weight = np.sum(new_weights); normalise when positive; resample
NormaliseAndResample(built, A, total_weight, u0) ==
    ResampleUpdated(IF ShouldNormalise(total_weight)
                    THEN Normalise(built.particles, built.ids, total_weight)
                    ELSE built.particles,
                    A, built.ids, total_weight, u0)

\* lines 123-136 and, word for word, lines 176-190
UpdateTail(P, A, ps, new_weights, u0) ==
    NormaliseAndResample(NewParticles(P, ps, new_weights), A, FSum(new_weights), u0)

BootstrapUpdate(P, A, ps, measurement, u0) ==
    LET predicted_measurements == MeasurementFunction(P, A, ps)
        likelihoods == LikelihoodFunction(measurement, predicted_measurements)
        new_weights == NewWeights(Weights(P, ps), likelihoods)
    IN  UpdateTail(P, A, ps, new_weights, u0)

\* association_probabilities[i, :] = likelihood_function(measurement_i, ...)
AssociationProbabilities(zs, predicted) ==
    [m \in 1..Len(zs) |-> LikelihoodFunction(zs[m], predicted)]

\* variant: the mean taken along the other axis (over the particles), so
\* that a single measurement gives every particle the same factor
ExpectedLikelihoodsOtherAxis(assoc, num_columns) ==
    [i \in 1..num_columns |->
        IF Len(assoc) = 0 THEN NaN
        ELSE FDiv(FSum(assoc[1]), Frac(num_columns, 1))]

\* np.mean(association_probabilities, axis=0); 0/0 = nan for an empty set
ExpectedLikelihoods(assoc, num_columns) ==
    [i \in 1..num_columns |->
        FDiv(FSum([m \in 1..Len(assoc) |-> assoc[m][i]]), Frac(Len(assoc), 1))]

ExpectedLikelihoodUpdate(P, A, ps, zs, u0) ==
    LET predicted_measurements == MeasurementFunction(P, A, ps)
        association_probabilities == AssociationProbabilities(zs, predicted_measurements)
        expected_likelihoods ==
            ExpectedLikelihoods(association_probabilities, Len(predicted_measurements))
        new_weights == NewWeights(Weights(P, ps), expected_likelihoods)
    IN  UpdateTail(P, A, ps, new_weights, u0)

---------------------------------------------------------------------------
(* The program: a prior, then the filtering loop of elpf_test.py *)

Filters == {"BootstrapParticleFilter", "ExpectedLikelihoodParticleFilter"}

\* elpf_test.py line 80: weights = np.ones(num_particles) / num_particles
UniformWeights(n) == [i \in 1..n |-> Frac(1, n)]

\* a prior whose whole weight sits on its last particle
PeakedWeights(n) == [i \in 1..n |-> IF i = n THEN One ELSE Zero]

\* every weight vector of n particles on the grid that sums to one
GridWeights(n) ==
    {[i \in 1..n |-> Frac(v[i], WeightGrid)] :
        v \in {w \in [1..n -> 0..WeightGrid] :
                  FSum([i \in 1..n |-> Frac(w[i], 1)]) = Frac(WeightGrid, 1)}}

\* draws of np.random.uniform(0, 1 / num_particles): the half-open [0, 1/N)
Offsets(n) == {Frac(k, OffsetGrid * n) : k \in 0..(OffsetGrid - 1)}

\* process-noise draws of one predict: none, or the first particle perturbed
NoiseVectors(n) ==
    {[i \in 1..n |-> IF i = 1 THEN e ELSE 0] : e \in NoiseValues}

\* clutter lists of at most MaxClutter points
RECURSIVE ClutterLists(_)
ClutterLists(n) ==
    IF n = 0 THEN {<<>>}
    ELSE ClutterLists(n - 1)
         \cup {Append(c, z) : c \in {d \in ClutterLists(n - 1) : Len(d) = n - 1},
                              z \in MeasValues}

NoCall ==
    [op |-> "none", arg |-> <<>>, given |-> <<>>, measurements |-> <<>>,
     new_states |-> <<>>, total_weight |-> NaN, updated |-> <<>>, ess |-> NaN,
     resampled |-> FALSE, u_i |-> NaN, index |-> <<>>, ret |-> <<>>]

Last(s) == s[Len(s)]

LoopHead == IF filter = "ExpectedLikelihoodParticleFilter" THEN "measure" ELSE "predict"

\* a prior of n particles at positions 0..n-1 carrying the weights w
PriorState(n, w) ==
    /\ arrays = [i \in 1..n |-> i - 1]
    /\ particles = [i \in 1..n |-> [state_vector |-> i, weight |-> w[i]]]
    /\ track = <<[i \in 1..n |-> i]>>
    /\ prior = [i \in 1..n |-> i]
    /\ measurements = <<>>
    /\ call = NoCall

Init ==
    /\ filter \in Filters
    /\ pc = LoopHead
    /\ \E n \in 1..MaxParticles :
         \E w \in {UniformWeights(n), PeakedWeights(n)} : PriorState(n, w)

\* resample alone, on every weight vector of the grid
InitResample ==
    /\ filter = "BootstrapParticleFilter"
    /\ pc = LoopHead
    /\ \E n \in 1..GridParticles :
         \E w \in GridWeights(n) : PriorState(n, w)

\* elpf_test.py lines 46-70: one measurement set, a detection (or none)
\* followed by the clutter points
GenerateMeasurements ==
    /\ pc = "measure"
    /\ Len(track) <= MaxSteps
    /\ \E detected \in BOOLEAN, z \in MeasValues, clutter \in ClutterLists(MaxClutter) :
          measurements' = (IF detected THEN <<z>> ELSE <<>>) \o clutter
    /\ pc' = "predict"
    /\ UNCHANGED <<particles, arrays, track, prior, filter, call>>

\* prior = pf.predict(track[-1], time_interval)
Predict ==
    /\ pc = "predict"
    /\ Len(track) <= MaxSteps
    /\ \E noise \in NoiseVectors(Len(Last(track))) :
          \E r \in {predict(particles, arrays, Last(track), time_interval, noise)} :
              /\ particles' = r.particles
              /\ arrays' = r.arrays
              /\ prior' = r.ret
              /\ call' = [NoCall EXCEPT
                            !.op = "predict",
                            !.arg = Last(track),
                            !.given = View(particles, arrays, Last(track)),
                            !.new_states = r.new_states,
                            !.ret = r.ret]
    /\ pc' = "update"
    /\ UNCHANGED <<track, measurements, filter>>

UpdateCall(op, zs, r) ==
    [NoCall EXCEPT
        !.op = op, !.arg = prior, !.given = View(particles, arrays, prior),
        !.measurements = zs, !.total_weight = r.total_weight,
        !.updated = r.updated, !.ess = r.ess, !.resampled = r.resampled,
        !.u_i = r.u_i, !.index = r.index, !.ret = r.ret]

\* posterior = pf.update(prior, measurement); track.append(posterior)
BootstrapUpdateStep ==
    /\ pc = "update"
    /\ filter = "BootstrapParticleFilter"
    /\ \E z \in MeasValues, u0 \in Offsets(Len(prior)) :
          \E r \in {BootstrapUpdate(particles, arrays, prior, z, u0)} :
              /\ particles' = r.particles
              /\ arrays' = r.arrays
              /\ track' = Append(track, r.ret)
              /\ call' = UpdateCall("bootstrap_update", <<z>>, r)
    /\ pc' = LoopHead
    /\ UNCHANGED <<prior, measurements, filter>>

\* posterior = pf.update(prior, measurements); track.append(posterior)
ExpectedLikelihoodUpdateStep ==
    /\ pc = "update"
    /\ filter = "ExpectedLikelihoodParticleFilter"
    /\ \E u0 \in Offsets(Len(prior)) :
          \E r \in {ExpectedLikelihoodUpdate(particles, arrays, prior, measurements, u0)} :
              /\ particles' = r.particles
              /\ arrays' = r.arrays
              /\ track' = Append(track, r.ret)
              /\ call' = UpdateCall("expected_likelihood_update", measurements, r)
    /\ pc' = LoopHead
    /\ UNCHANGED <<prior, measurements, filter>>

\* a direct call pf.resample(track[-1]), its result appended to the track
ResampleStep ==
    /\ pc = LoopHead
    /\ Len(track) <= MaxSteps
    /\ \E u0 \in Offsets(Len(Last(track))) :
          \E r \in {resample(particles, arrays, Last(track), u0)} :
              /\ particles' = r.particles
              /\ arrays' = r.arrays
              /\ track' = Append(track, r.ret)
              /\ call' = [NoCall EXCEPT
                            !.op = "resample",
                            !.arg = Last(track),
                            !.given = View(particles, arrays, Last(track)),
                            !.ess = r.ess, !.resampled = r.resampled,
                            !.u_i = r.u_i, !.index = r.index, !.ret = r.ret]
    /\ UNCHANGED <<prior, measurements, filter, pc>>

Next ==
    \/ GenerateMeasurements
    \/ Predict
    \/ BootstrapUpdateStep
    \/ ExpectedLikelihoodUpdateStep
    \/ ResampleStep

Spec == Init /\ [][Next]_vars

SpecResample == InitResample /\ [][ResampleStep]_vars

---------------------------------------------------------------------------
(* Properties *)

IsUpdate == call.op \in {"bootstrap_update", "expected_likelihood_update"}

\* the ParticleState the latest call returned, by value
Returned == View(particles, arrays, call.ret)

GivenWeights == [i \in 1..Len(call.given) |-> call.given[i].weight]

\* C1 (weight conservation): whenever an update of either filter computed a
\* strictly positive total weight, the weights of the ParticleState it
\* returned and appended to the track sum to one, resampled or not.
WeightConservation ==
    (IsUpdate /\ FLess(Zero, call.total_weight)) =>
        /\ Last(track) = call.ret
        /\ FSum(Weights(particles, call.ret)) = One

\* C1 witness: a second update that normalised and resampled, after a first
\* one whose normalised, non-uniform result was kept without resampling
WeightConservationWitness ==
    /\ IsUpdate
    /\ Len(track) = 3
    /\ FLess(Zero, call.total_weight)
    /\ call.total_weight # One
    /\ call.resampled
    /\ \E i, k \in 1..Len(track[2]) :
          FLess(particles[track[2][i]].weight, particles[track[2][k]].weight)

\* C2 (particle count invariance): predict, update and resample return as
\* many particles as they were given, at least one, and every ParticleState
\* of the track has the particle count of the prior.
ParticleCountInvariance ==
    /\ call.op # "none" => (Len(call.arg) >= 1 /\ Len(call.ret) = Len(call.arg))
    /\ \A k \in 1..Len(track) : Len(track[k]) = Len(track[1])
    /\ Len(prior) = Len(track[1])

\* C2 witness: a track of three states of three or more particles whose
\* latest update resampled
ParticleCountWitness ==
    /\ Len(track) = 3
    /\ Len(track[1]) >= 3
    /\ IsUpdate
    /\ call.resampled

\* sum of the squared weights the latest call was given
GivenSquares == FSum([i \in 1..Len(call.given) |-> FMul(GivenWeights[i], GivenWeights[i])])

\* C3 (resample trigger): on weights summing to one, resample replaces the
\* particle set exactly when 1 / sum(w^2) < N / 2, that is 2 < N * sum(w^2);
\* otherwise it returns the very ParticleState it was given, unchanged.
ResampleTrigger ==
    (call.op = "resample" /\ FSum(GivenWeights) = One) =>
        /\ call.resampled <=>
              FLess(Frac(2, 1), FMul(Frac(Len(call.given), 1), GivenSquares))
        /\ ~call.resampled => (call.ret = call.arg /\ Returned = call.given)

\* C3 witness: a first resample replaced the particle set, and a second one,
\* given the uniform weights (ESS = N), returned its input unchanged
ResampleTriggerWitness ==
    /\ call.op = "resample"
    /\ Len(track) = 3
    /\ track[2] # track[1]
    /\ ~call.resampled
    /\ call.ess = Frac(Len(call.given), 1)
    /\ track[3] = track[2]

\* the cumulative weight up to position i, the last one forced to one
GivenCdf(i) == IF i = Len(call.given) THEN One ELSE FSumTo(GivenWeights, i)

\* C4 (resample output): when resampling triggers, the output has N
\* particles of weight exactly 1/N, and the j-th one carries the state vector
\* of the first input particle whose cumulative weight reaches u0 + j/N
\* (j counted from zero).
ResampleOutput ==
    (call.op = "resample" /\ call.resampled) =>
        LET n == Len(call.given)
        IN  /\ Len(call.ret) = n
            /\ \A j \in 1..n :
                 LET u == FAdd(call.u_i, Frac(j - 1, n))
                 IN  /\ Returned[j].weight = Frac(1, n)
                     /\ \E i \in 1..n :
                          /\ ~FLess(GivenCdf(i), u)
                          /\ \A k \in 1..(i - 1) : FLess(GivenCdf(k), u)
                          /\ Returned[j].state_vector = call.given[i].state_vector

\* C4 witness: a resampling with a non-zero offset that copied one input
\* particle twice and dropped another
ResampleOutputWitness ==
    /\ call.op = "resample"
    /\ call.resampled
    /\ call.u_i # Zero
    /\ Len(call.given) >= 3
    /\ \E j, k \in 1..Len(call.index) : j # k /\ call.index[j] = call.index[k]
    /\ Cardinality(Range(call.index)) >= 2

\* C5 (predict weight preservation): predict returns, in input order, one
\* particle per input particle, carrying that particle's weight and the
\* matching column of the transition model's output.
PredictPreservesWeights ==
    call.op = "predict" =>
        /\ Len(call.ret) = Len(call.given)
        /\ \A i \in 1..Len(call.given) :
             /\ Returned[i].weight = call.given[i].weight
             /\ Returned[i].state_vector = call.new_states[i]

\* C5 witness: a predict on the non-uniform weights an update left behind,
\* which moved a particle
PredictWitness ==
    /\ call.op = "predict"
    /\ Len(track) = 2
    /\ \E i, k \in 1..Len(call.given) :
          FLess(call.given[i].weight, call.given[k].weight)
    /\ \E i \in 1..Len(call.given) :
          Returned[i].state_vector # call.given[i].state_vector

ResultView(r) == View(r.particles, r.arrays, r.ret)

\* C6 (equivalence for M = 1): an expected-likelihood update with the single
\* measurement z returns the state vectors and weights the bootstrap update
\* returns for z on the same input with the same offset, and conversely.
SingleMeasurementEquivalence ==
    (IsUpdate /\ Len(call.measurements) = 1) =>
        \A u0 \in Offsets(Len(call.arg)) :
            (call.resampled => u0 = call.u_i) =>
                /\ ResultView(BootstrapUpdate(particles, arrays, call.arg,
                                              call.measurements[1], u0)) = Returned
                /\ ResultView(ExpectedLikelihoodUpdate(particles, arrays, call.arg,
                                              call.measurements, u0)) = Returned

\* C6 witness: an expected-likelihood update with one measurement that
\* normalised and resampled
SingleMeasurementWitness ==
    /\ call.op = "expected_likelihood_update"
    /\ Len(call.measurements) = 1
    /\ FLess(Zero, call.total_weight)
    /\ call.total_weight # One
    /\ call.resampled

\* C7 (degenerate weighting): when the new weights sum to zero, update
\* neither normalises nor resamples; it returns the input's state vectors
\* in input order with all weights zero.
DegenerateWeighting ==
    (IsUpdate /\ call.total_weight = Zero) =>
        /\ ~call.resampled
        /\ Len(call.ret) = Len(call.given)
        /\ \A i \in 1..Len(call.given) :
             /\ Returned[i].state_vector = call.given[i].state_vector
             /\ Returned[i].weight = Zero

\* C7 witness: an update whose every likelihood was zero on a prior of two
\* or more particles with positive weights
DegenerateWitness ==
    /\ IsUpdate
    /\ call.total_weight = Zero
    /\ Len(call.given) >= 2
    /\ \A i \in 1..Len(call.given) : FLess(Zero, call.given[i].weight)

\* C8 (no input mutation): no step changes the value of any ParticleState
\* already in the track, nor of the ParticleState held in `prior`, and the
\* track only grows.
NoInputMutation ==
    [][/\ \A k \in 1..Len(track) :
            /\ k <= Len(track')
            /\ track'[k] = track[k]
            /\ View(particles', arrays', track[k]) = View(particles, arrays, track[k])
       /\ View(particles', arrays', prior) = View(particles, arrays, prior)]_vars

\* C8 witness: a track of three states whose latest update divided the
\* weights by a total other than one
NoInputMutationWitness ==
    /\ Len(track) = 3
    /\ IsUpdate
    /\ FLess(Zero, call.total_weight)
    /\ call.total_weight # One
    /\ Len(call.given) >= 2

\* C9 (the example never updates on an empty set): every call of
\* ExpectedLikelihoodParticleFilter.update in the filtering loop is given at
\* least one measurement.
ExampleUpdateNonEmpty ==
    call.op = "expected_likelihood_update" => Len(call.measurements) >= 1

\* C10 (no zero-weight particle is resampled): when resampling triggers,
\* every selected index is that of an input particle of positive weight.
ResampleSkipsZeroWeights ==
    (call.op = "resample" /\ call.resampled) =>
        \A j \in 1..Len(call.index) : FLess(Zero, call.given[call.index[j]].weight)

====
